---- MODULE Spec2Model ----
(***************************************************************************)
(* Model of juridische-analyse-streamlit.py: the Streamlit front end, the   *)
(* content extractors, call_gemini, parse_json_response and the six agent   *)
(* stages that main() runs in sequence.                                     *)
(*                                                                          *)
(* Text is modelled as a sequence of lexemes (tokens).  A token is a record *)
(* whose field t names the lexeme:                                          *)
(*   "fence_json"  the opening fence of a json code block: three back       *)
(*              quotes and the word json (7 characters)                     *)
(*   "fence"    a bare fence: three back quotes                             *)
(*   "{" "}"    braces                                                      *)
(*   "kv"       one complete  "key": value  member of a JSON object, with   *)
(*              its separator; k is the key and v the decoded value         *)
(*   "n"        a one character JSON value that is not an object (a digit)  *)
(*   "arr"      the two characters of an empty JSON array                   *)
(*   "p"        a word of prose: no JSON value, several characters          *)
(*   "ws"       one white space character                                   *)
(* A Python call is modelled by an operator that yields an outcome record   *)
(* [exc, ret]: exc = NoExc and ret the returned value, or exc the name of   *)
(* the exception that escapes the call.                                     *)
(***************************************************************************)
EXTENDS Integers, Sequences, FiniteSets, TLC

\* ------------------------------------------------------------------------
\* Bounds of the model
\* ------------------------------------------------------------------------
\* longest raw response handed to parse_json_response in SpecParse
MaxLen == 3
\* most pages of a PDF / paragraphs and relationships of a DOCX in SpecExtract
MaxPages == 2
\* most extra images uploaded
MaxImages == 2

\* ------------------------------------------------------------------------
\* Python values
\* ------------------------------------------------------------------------
NoExc == "none"

Returns(v) == [exc |-> NoExc, ret |-> v]

Raises(e) == [exc |-> e, ret |-> <<>>]

\* the empty dict {}
EmptyDict == <<>>

\* Python None in st.session_state.results
None == [py_none |-> TRUE]

\* decoded JSON values that are not objects: a number and a list
PyInt == [py_type |-> "int"]

PyList == [py_type |-> "list"]

IsDict(v) == ("py_type" \notin DOMAIN v) /\ ("py_none" \notin DOMAIN v)

\* d.get(k, default)
Get(d, k, default) == IF k \in DOMAIN d THEN d[k] ELSE default

\* ------------------------------------------------------------------------
\* Text
\* ------------------------------------------------------------------------
Tok(t) == [t |-> t]

KV(k, v) == [t |-> "kv", k |-> k, v |-> v]

FENCE_JSON == Tok("fence_json")

FENCE == Tok("fence")

LB == Tok("{")

RB == Tok("}")

NUM == Tok("n")

ARR == Tok("arr")

PROSE == Tok("p")

WS == Tok("ws")

\* s[a:b] of Python, 0-based, with negative and out of range indices
PySlice(s, a, b) ==
    LET n  == Len(s)
        a1 == IF a < 0 THEN (IF a + n < 0 THEN 0 ELSE a + n) ELSE (IF a > n THEN n ELSE a)
        b1 == IF b < 0 THEN (IF b + n < 0 THEN 0 ELSE b + n) ELSE (IF b > n THEN n ELSE b)
    IN  IF a1 >= b1 THEN <<>> ELSE SubSeq(s, a1 + 1, b1)

\* the lexemes in which three back quotes occur
HasFence == {"fence_json", "fence"}

\* s.find(x, start): 0-based index of the first token at or after start in
\* which x occurs (its kind is one of kinds), -1 when there is none
PyFind(s, kinds, start) ==
    LET hits == {i \in 0..(Len(s) - 1) : i >= start /\ s[i + 1].t \in kinds}
    IN  IF hits = {} THEN -1 ELSE CHOOSE i \in hits : \A j \in hits : i <= j

\* s.rfind(x)
PyRFind(s, kinds) ==
    LET hits == {i \in 0..(Len(s) - 1) : s[i + 1].t \in kinds}
    IN  IF hits = {} THEN -1 ELSE CHOOSE i \in hits : \A j \in hits : i >= j

IsFenceJson == {"fence_json"}

IsLB == {"{"}

IsRB == {"}"}

IsWs(tok) == tok.t = "ws"

\* s[start:-1] cuts the last CHARACTER: a one character lexeme goes, a longer
\* one is left broken, which is no JSON any more
DropLastChar(s) ==
    IF Len(s) = 0 THEN s
    ELSE IF s[Len(s)].t \in {"{", "}", "n", "ws"}
         THEN SubSeq(s, 1, Len(s) - 1)
         ELSE SubSeq(s, 1, Len(s) - 1) \o <<PROSE>>

\* str.strip()
RECURSIVE LStrip(_)
LStrip(s) == IF Len(s) > 0 /\ IsWs(s[1]) THEN LStrip(Tail(s)) ELSE s

RECURSIVE RStrip(_)
RStrip(s) == IF Len(s) > 0 /\ IsWs(s[Len(s)]) THEN RStrip(SubSeq(s, 1, Len(s) - 1)) ELSE s

Strip(s) == RStrip(LStrip(s))

\* white space between the lexemes of a JSON text is insignificant
RECURSIVE DropWs(_)
DropWs(s) ==
    IF s = <<>> THEN <<>>
    ELSE IF IsWs(s[1]) THEN DropWs(Tail(s)) ELSE <<s[1]>> \o DropWs(Tail(s))

\* the dict the members of an object decode to: a repeated key keeps its last value
DictOf(members) ==
    [k \in {members[i].k : i \in 1..Len(members)} |->
        LET last == CHOOSE i \in 1..Len(members) :
                        /\ members[i].k = k
                        /\ \A j \in 1..Len(members) : members[j].k = k => j <= i
        IN  members[last].v]

\* json.loads(s): an object  { member* }  decodes to a dict, a digit to an int,
\* an array to a list; anything else raises json.JSONDecodeError
json_loads(s) ==
    LET c == DropWs(s)
    IN  IF Len(c) = 1 /\ c[1].t = "n" THEN Returns(PyInt)
        ELSE IF Len(c) = 1 /\ c[1].t = "arr" THEN Returns(PyList)
        ELSE IF /\ Len(c) >= 2
                /\ c[1].t = "{"
                /\ c[Len(c)].t = "}"
                /\ \A i \in 2..(Len(c) - 1) : c[i].t = "kv"
             THEN Returns(DictOf(SubSeq(c, 2, Len(c) - 1)))
             ELSE Raises("JSONDecodeError")

\* json.dumps(d) of a flat dict given as its members in insertion order
json_dumps(members) == <<LB>> \o members \o <<RB>>

\* ------------------------------------------------------------------------
\* call_gemini
\* ------------------------------------------------------------------------
\* What the model service does on one call: it raises (detail is str(e)), it
\* answers with no parts (blocked), or it answers with a text.
ServiceRaise(detail) == [kind |-> "raise", detail |-> detail, text |-> <<>>]

ServiceNoParts == [kind |-> "no_parts", detail |-> "", text |-> <<>>]

ServiceText(text) == [kind |-> "text", detail |-> "", text |-> text]

ErrorDetails == {"429 quota exceeded", "503 unavailable"}

BlockedSentinel ==
    json_dumps(<<KV("error", "Gemini response geblokkeerd"),
                 KV("reason", "Mogelijk safety filter of te lange input"),
                 KV("fallback", TRUE)>>)

ErrorSentinel(detail) == json_dumps(<<KV("error", detail), KV("fallback", TRUE)>>)

\* a variant whose blocked marker is a plain message, not a JSON text
call_gemini_plain(service) ==
    IF service.kind = "raise" THEN Returns(ErrorSentinel(service.detail))
    ELSE IF service.kind = "no_parts" THEN Returns(<<PROSE, PROSE>>)
    ELSE Returns(service.text)

\* a variant that lets the exception of the service escape
call_gemini_uncaught(service) ==
    IF service.kind = "raise" THEN Raises("Exception")
    ELSE IF service.kind = "no_parts" THEN Returns(BlockedSentinel)
    ELSE Returns(service.text)

call_gemini(service) ==
    IF service.kind = "raise" THEN Returns(ErrorSentinel(service.detail))
    ELSE IF service.kind = "no_parts" THEN Returns(BlockedSentinel)
    ELSE Returns(service.text)

\* ------------------------------------------------------------------------
\* parse_json_response
\* ------------------------------------------------------------------------
ParseFailure(response) ==
    [error |-> "JSON parsing failed", raw_response |-> response]

\* lines 319-326: the text handed to json.loads
json_str_of(response) ==
    IF PyFind(response, IsFenceJson, 0) # -1
    THEN LET start == PyFind(response, IsFenceJson, 0) + 1
             end   == PyFind(response, HasFence, start)
         IN  Strip(IF end = -1
                   THEN DropLastChar(PySlice(response, start, Len(response)))
                   ELSE PySlice(response, start, end))
    ELSE LET start == PyFind(response, IsLB, 0)
             end   == PyRFind(response, IsRB) + 1
         IN  PySlice(response, start, end)

\* a variant whose failure record carries the text that was cut out
parse_json_response_cut(response) ==
    LET loaded == json_loads(json_str_of(response))
    IN  IF loaded.exc = NoExc THEN Returns(loaded.ret)
        ELSE Returns(ParseFailure(json_str_of(response)))

parse_json_response(response) ==
    LET loaded == json_loads(json_str_of(response))
    IN  IF loaded.exc = NoExc THEN Returns(loaded.ret)
        ELSE Returns(ParseFailure(response))

\* ------------------------------------------------------------------------
\* Content extraction
\* ------------------------------------------------------------------------
\* Extracted text is a sequence of chunks (strings).  env tells which optional
\* imports of lines 22-41 succeeded: env.PyPDF2 and env.PIL.
TYPE_TXT == "text/plain"

TYPE_PDF == "application/pdf"

TYPE_DOCX == "application/vnd.openxmlformats-officedocument.wordprocessingml.document"

TYPE_PNG == "image/png"

TYPE_OTHER == "application/octet-stream"

\* A page of a PDF: "plain" has text only, "image" has text and one image
\* XObject, "broken" makes extract_text raise, "image_broken" has an image
\* XObject followed by an XObject without /Subtype (line 159 raises after
\* line 160 appended the image).
PageKinds == {"plain", "image", "broken", "image_broken"}

Extracted(text, images) == [text |-> text, images |-> images]

PDF_UNAVAILABLE == "PDF verwerking niet beschikbaar - upload als afbeelding voor OCR"

PDF_DIAGNOSTIC == "Fout bij PDF verwerking - probeer het bestand als afbeelding te uploaden"

\* lines 150-164: the loop over the pages, from page number i on, with the text
\* and images gathered so far; failed is set by the first page that raises
RECURSIVE PdfPages(_, _, _, _)
PdfPages(pages, i, text, images) ==
    IF i > Len(pages) THEN [failed |-> FALSE, text |-> text, images |-> images]
    ELSE IF pages[i] = "broken"
         THEN [failed |-> TRUE, text |-> text, images |-> images]
    ELSE LET text1   == text \o <<"--- Pagina ---", "page text">>
             images1 == IF pages[i] \in {"image", "image_broken"}
                        THEN Append(images, [page |-> i, detected |-> TRUE])
                        ELSE images
         IN  IF pages[i] = "image_broken"
             THEN [failed |-> TRUE, text |-> text1, images |-> images1]
             ELSE PdfPages(pages, i + 1, text1, images1)

extract_text_from_pdf(doc, env) ==
    IF ~env.PyPDF2 THEN Returns(Extracted(<<PDF_UNAVAILABLE>>, <<>>))
    ELSE IF ~doc.opens THEN Returns(Extracted(<<PDF_DIAGNOSTIC>>, <<>>))
    ELSE LET r == PdfPages(doc.pages, 1, <<>>, <<>>)
         IN  IF r.failed THEN Returns(Extracted(<<PDF_DIAGNOSTIC>>, r.images))
             ELSE Returns(Extracted(r.text, r.images))

\* line 176 reads the global name docx, which no import of the file binds:
\* the read raises NameError before the try block of line 179 is entered
extract_text_from_docx(doc, env) == Raises("NameError")

DOCX_DIAGNOSTIC == "Fout bij DOCX verwerking - probeer het bestand als PDF of afbeelding"

PIL_UNAVAILABLE == "PIL niet beschikbaar voor beeldverwerking"

\* process_image_with_gemini: vision is what the model service does on the call
process_image_with_gemini(vision, env) ==
    IF ~env.PIL THEN Returns(<<PIL_UNAVAILABLE>>)
    ELSE IF vision.kind = "text" THEN Returns(vision.text)
    ELSE Returns(<<"Fout bij beeldanalyse: ">>)

\* lines 228-267: ret holds full_content and the local images_found
extract_and_analyze_content(doc, vision, env) ==
    IF doc.type = TYPE_TXT
    THEN IF doc.utf8 THEN Returns(Extracted(<<"document text">>, <<>>))
         ELSE Raises("UnicodeDecodeError")
    ELSE IF doc.type = TYPE_PDF
    THEN extract_text_from_pdf(doc, env)
    ELSE IF doc.type = TYPE_DOCX
    THEN extract_text_from_docx(doc, env)
    ELSE IF doc.type = TYPE_PNG
    THEN Returns(Extracted(<<"[AFBEELDING ANALYSE]">>
                           \o process_image_with_gemini(vision, env).ret, <<>>))
    ELSE Returns(Extracted(<<>>, <<>>))

\* an uploaded file
Doc(type, utf8, opens, pages) ==
    [type |-> type, utf8 |-> utf8, opens |-> opens, pages |-> pages]

\* ------------------------------------------------------------------------
\* The agents
\* ------------------------------------------------------------------------
\* An agent call yields [exc, ret, logs, called]: the exception that escapes it
\* (NoExc when it returns), the dict it returns, the messages it passed to
\* progress_callback in order, and whether it called call_gemini.
Log(stage, kind, n) == [stage |-> stage, kind |-> kind, n |-> n]

AgentReturns(ret, logs, called) ==
    [exc |-> NoExc, ret |-> ret, logs |-> logs, called |-> called]

AgentRaises(e, logs, called) ==
    [exc |-> e, ret |-> EmptyDict, logs |-> logs, called |-> called]

\* key in result: a dict is asked for the key, a list holds no string, and an
\* int is not iterable (TypeError)
PyIn(key, v) ==
    IF "py_type" \in DOMAIN v
    THEN IF v.py_type = "int" THEN Raises("TypeError") ELSE Returns(FALSE)
    ELSE Returns(key \in DOMAIN v)

\* the filter words of lines 417, 490 and 568 that occur in a category string
WordsIn(categorie) ==
    CASE categorie = "Nieuw Argument"           -> {"Argument"}
      [] categorie = "Nieuwe Juridische Bron"   -> {"Juridische"}
      [] categorie = "Nieuw Stuk/Feit"          -> {"Stuk", "Feit"}
      [] categorie = "Nieuw Procedureel Middel" -> {"Procedureel"}
      [] categorie = "Nieuw Visueel Bewijs"     -> {"Visueel"}
      [] OTHER                                  -> {}

\* a variant in which Agent 3 also looks for the word Feit
WordsOf_shared(stage) ==
    CASE stage = "agent1" -> {"Procedureel"}
      [] stage = "agent2" -> {"Feit", "Stuk", "Visueel"}
      [] stage = "agent3" -> {"Argument", "Juridische", "Feit"}

\* the words the filter of a specialist looks for (lines 417, 490, 568)
WordsOf(stage) ==
    CASE stage = "agent1" -> {"Procedureel"}
      [] stage = "agent2" -> {"Feit", "Stuk", "Visueel"}
      [] stage = "agent3" -> {"Argument", "Juridische"}

\* a variant of the filter that lets every element through
FilterElems_all(elementen, words) == elementen

\* [elem for elem in elementen if one of the words is in elem['categorie']]
RECURSIVE FilterElems(_, _)
FilterElems(elementen, words) ==
    IF elementen = <<>> THEN <<>>
    ELSE IF WordsIn(Head(elementen).categorie) \cap words # {}
         THEN <<Head(elementen)>> \o FilterElems(Tail(elementen), words)
         ELSE FilterElems(Tail(elementen), words)

\* lines 389-398, with the progress message of line 394 indexing the summary
\* without a default
Agent0_analyze(service) ==
    LET start    == <<Log("agent0", "start", 0)>>
        response == call_gemini(service).ret
        result   == parse_json_response(response).ret
        has      == PyIn("nieuwe_elementen", result)
    IN  IF has.exc # NoExc THEN AgentRaises(has.exc, start, TRUE)
        ELSE IF has.ret
        THEN IF /\ "samenvatting" \in DOMAIN result
                /\ "totaal_nieuwe_elementen" \in DOMAIN result["samenvatting"]
             THEN AgentReturns(result,
                      Append(start, Log("agent0", "found",
                             result["samenvatting"]["totaal_nieuwe_elementen"])),
                      TRUE)
             ELSE AgentRaises("KeyError", start, TRUE)
        ELSE AgentReturns(result, Append(start, Log("agent0", "no valid output", 0)), TRUE)

\* a variant of the shared shape that raises on an error record
Specialist_strict(stage, key, words, empty, agent0_output, service) ==
    LET start     == <<Log(stage, "start", 0)>>
        elementen == FilterElems(Get(agent0_output, "nieuwe_elementen", <<>>), words)
        result    == parse_json_response(call_gemini(service).ret).ret
    IN  IF elementen = <<>>
        THEN AgentReturns(empty, Append(start, Log(stage, "nothing new", 0)), FALSE)
        ELSE IF "error" \in DOMAIN result THEN AgentRaises("RuntimeError", start, TRUE)
        ELSE AgentReturns(result, Append(start, Log(stage, "finished", 0)), TRUE)

\* the shape shared by Agent 1, 2 and 3: filter, return the fixed empty result
\* without a call when nothing is selected, else call, parse and report
Specialist(stage, key, words, empty, agent0_output, service) ==
    LET start     == <<Log(stage, "start", 0)>>
        elementen == FilterElems(Get(agent0_output, "nieuwe_elementen", <<>>), words)
        response  == call_gemini(service).ret
        result    == parse_json_response(response).ret
        has       == PyIn(key, result)
    IN  IF elementen = <<>>
        THEN AgentReturns(empty, Append(start, Log(stage, "nothing new", 0)), FALSE)
        ELSE IF has.exc # NoExc THEN AgentRaises(has.exc, start, TRUE)
        ELSE IF has.ret
        THEN AgentReturns(result, Append(start, Log(stage, "analysed", Len(result[key]))), TRUE)
        ELSE AgentReturns(result, Append(start, Log(stage, "finished", 0)), TRUE)

Agent1_empty ==
    [procedurele_analyse |-> <<>>, prioriteit_volgorde |-> <<>>,
     onmiddellijke_actie_vereist |-> FALSE]

Agent1_analyze(agent0_output, service) ==
    Specialist("agent1", "procedurele_analyse", WordsOf("agent1"), Agent1_empty,
               agent0_output, service)

Agent2_empty == [feitelijke_analyse |-> <<>>, grootste_risico_feiten |-> <<>>]

Agent2_analyze(agent0_output, service) ==
    Specialist("agent2", "feitelijke_analyse", WordsOf("agent2"), Agent2_empty,
               agent0_output, service)

Agent3_empty == [juridische_analyse |-> <<>>, prioritaire_verweren |-> <<>>]

\* line 578 reads agent2_output.get('feitelijke_analyse', []) for the prompt
Agent3_analyze(agent0_output, agent2_output, service) ==
    IF ~IsDict(agent2_output)
          /\ FilterElems(Get(agent0_output, "nieuwe_elementen", <<>>),
                         WordsOf("agent3")) # <<>>
    THEN AgentRaises("AttributeError", <<Log("agent3", "start", 0)>>, FALSE)
    ELSE Specialist("agent3", "juridische_analyse", WordsOf("agent3"), Agent3_empty,
                    agent0_output, service)

\* lines 630-668: no filter and no test of the result
Agent5_analyze(agent0_output, service) ==
    LET response == call_gemini(service).ret
        result   == parse_json_response(response).ret
    IN  AgentReturns(result,
                     <<Log("agent5", "start", 0), Log("agent5", "impact matrix", 0)>>, TRUE)

\* all_outputs.get(stage, {})
Entry(results, stage) == Get(results, stage, EmptyDict)

\* line 578: what Agent 3 puts in its prompt of the output of Agent 2
Agent3_feitelijke_ondersteuning(agent2_output) ==
    Get(agent2_output, "feitelijke_analyse", <<>>)

\* a variant that hands Agent 5 an empty dict in place of an error record
Agent5_prompt_defaults(agent1_output, agent2_output, agent3_output, agent0_output) ==
    [samenvatting |-> Get(agent0_output, "samenvatting", EmptyDict),
     agent1       |-> IF "error" \in DOMAIN agent1_output THEN EmptyDict ELSE agent1_output,
     agent2       |-> IF "error" \in DOMAIN agent2_output THEN EmptyDict ELSE agent2_output,
     agent3       |-> IF "error" \in DOMAIN agent3_output THEN EmptyDict ELSE agent3_output]

\* lines 633-637: what Agent 5 puts in its prompt: the summary of Agent 0 with
\* a default, the outputs of Agent 1, 2 and 3 as they are
Agent5_prompt(agent1_output, agent2_output, agent3_output, agent0_output) ==
    [samenvatting |-> Get(agent0_output, "samenvatting", EmptyDict),
     agent1       |-> agent1_output,
     agent2       |-> agent2_output,
     agent3       |-> agent3_output]

\* lines 683-690, for entries that are dicts
Agent4_summary(all_outputs) ==
    [nieuwe_elementen     |->
        Len(Get(Entry(all_outputs, "agent0"), "nieuwe_elementen", <<>>)),
     procedurele_risicos  |->
        Len(Get(Entry(all_outputs, "agent1"), "procedurele_analyse", <<>>)),
     feitelijke_issues    |->
        Len(Get(Entry(all_outputs, "agent2"), "feitelijke_analyse", <<>>)),
     juridische_aanvallen |->
        Len(Get(Entry(all_outputs, "agent3"), "juridische_analyse", <<>>)),
     visuele_elementen    |->
        Get(Get(Entry(all_outputs, "agent0"), "samenvatting", EmptyDict),
            "visuele_elementen_gevonden", 0),
     hoofdrisico          |->
        Get(Entry(all_outputs, "agent5"), "structurele_integriteit", EmptyDict)]

Agent4_fallback ==
    [strategisch_memorandum |->
        [executive_summary  |-> "Synthese gefaald - check individuele agent outputs",
         prioritaire_acties |-> <<"Check agent logs voor details">>,
         verweer_hierarchie |-> EmptyDict]]

\* lines 683-690 read every earlier entry with .get, which a non-dict entry
\* does not have
Agent4_summary_raises(all_outputs) ==
    \E st \in {"agent0", "agent1", "agent2", "agent3", "agent5"} :
        st \in DOMAIN all_outputs /\ ~IsDict(all_outputs[st])

Agent4_synthesize(all_outputs, service) ==
    LET start    == <<Log("agent4", "start", 0)>>
        response == call_gemini(service).ret
        result   == parse_json_response(response).ret
        err      == PyIn("error", result)
        fb       == PyIn("fallback", result)
    IN  IF Agent4_summary_raises(all_outputs)
        THEN AgentRaises("AttributeError", start, FALSE)
        ELSE IF err.exc # NoExc THEN AgentRaises(err.exc, start, TRUE)
        ELSE AgentReturns(IF err.ret \/ fb.ret THEN Agent4_fallback ELSE result,
                          Append(start, Log("agent4", "synthesis complete", 0)), TRUE)

\* ------------------------------------------------------------------------
\* The report of lines 1111-1132
\* ------------------------------------------------------------------------
NO_STRATEGY == "Geen visuele bewijzen geanalyseerd"

rapport(results) ==
    [nieuwe_elementen     |-> Len(Get(Entry(results, "agent0"), "nieuwe_elementen", <<>>)),
     procedurele_risicos  |-> Len(Get(Entry(results, "agent1"), "procedurele_analyse", <<>>)),
     feitelijke_issues    |-> Len(Get(Entry(results, "agent2"), "feitelijke_analyse", <<>>)),
     juridische_aanvallen |-> Len(Get(Entry(results, "agent3"), "juridische_analyse", <<>>)),
     hoofdargumentatie_intact |->
        IF Get(Get(Entry(results, "agent5"), "structurele_integriteit", EmptyDict),
               "hoofdargumentatie_intact", FALSE)
        THEN "Ja" ELSE "Nee",
     prioritaire_acties   |->
        Get(Get(Entry(results, "agent4"), "strategisch_memorandum", EmptyDict),
            "prioritaire_acties", <<>>),
     visueel_bewijs_strategie |->
        Get(Entry(results, "agent5"), "visueel_bewijs_strategie", NO_STRATEGY)]

\* ------------------------------------------------------------------------
\* What the mocked model service can answer to each stage
\* ------------------------------------------------------------------------
Elem(id, categorie) == [id |-> id, categorie |-> categorie]

Categories ==
    <<"Nieuw Argument", "Nieuwe Juridische Bron", "Nieuw Stuk/Feit",
      "Nieuw Procedureel Middel", "Nieuw Visueel Bewijs">>

\* The answers are kept in sequences and drawn by index.
FindingLists ==
    [i \in 1..Len(Categories) |-> <<Elem("N001", Categories[i])>>]
    \o << <<Elem("N001", "statutory article")>>,
          <<Elem("N001", "Nieuw Procedureel Middel"), Elem("N002", "Nieuw Stuk/Feit"),
            Elem("N003", "Nieuw Argument")>> >>

NE(list) == KV("nieuwe_elementen", list)

SAM(n) ==
    KV("samenvatting", [totaal_nieuwe_elementen |-> n, visuele_elementen_gevonden |-> 0])

Agent0Texts ==
    << <<PROSE>>,
       json_dumps(<<>>),
       json_dumps(<<SAM(0)>>),
       json_dumps(<<NE(<<>>), SAM(0)>>),
       json_dumps(<<NE(<<>>)>>),
       json_dumps(<<NE(<<Elem("N001", "Nieuw Argument")>>)>>),
       <<PROSE, FENCE_JSON>> \o json_dumps(<<NE(<<Elem("N001", "Nieuw Stuk/Feit")>>), SAM(1)>>)
          \o <<FENCE>>,
       <<FENCE_JSON, ARR, FENCE>>,
       <<FENCE_JSON, NUM, FENCE>> >>
    \o [i \in 1..Len(FindingLists) |->
           json_dumps(<<NE(FindingLists[i]), SAM(Len(FindingLists[i]))>>)]

GoodText(stage) ==
    CASE stage = "agent1" ->
            json_dumps(<<KV("procedurele_analyse", <<[element_id |-> "N001"]>>),
                         KV("prioriteit_volgorde", <<"N001">>)>>)
      [] stage = "agent2" ->
            json_dumps(<<KV("feitelijke_analyse", <<[element_id |-> "N001"]>>),
                         KV("grootste_risico_feiten", <<"N001">>)>>)
      [] stage = "agent3" ->
            json_dumps(<<KV("juridische_analyse", <<[element_id |-> "N001"]>>),
                         KV("prioritaire_verweren", <<"verweer">>)>>)
      [] stage = "agent5" ->
            json_dumps(<<KV("structurele_integriteit", [hoofdargumentatie_intact |-> TRUE]),
                         KV("visueel_bewijs_strategie", "strategie")>>)
      [] stage = "agent4" ->
            json_dumps(<<KV("strategisch_memorandum",
                            [executive_summary  |-> "samenvatting",
                             prioritaire_acties |-> <<"actie 1">>])>>)

StageTexts(stage) ==
    IF stage = "agent0" THEN Agent0Texts
    ELSE << <<PROSE>>, GoodText(stage) >>
         \o (IF stage = "agent2"
             THEN << <<FENCE_JSON, ARR, FENCE>>, <<FENCE_JSON, NUM, FENCE>> >>
             ELSE <<>>)
         \o (IF stage = "agent4"
             THEN << json_dumps(<<KV("executive_summary", "samenvatting")>>) >>
             ELSE <<>>)

Services(stage) ==
    <<ServiceNoParts, ServiceRaise("429 quota exceeded")>>
    \o (IF stage = "agent0" THEN <<ServiceRaise("503 unavailable")>> ELSE <<>>)
    \o [i \in 1..Len(StageTexts(stage)) |-> ServiceText(StageTexts(stage)[i])]

VisionServices == {ServiceRaise("429 quota exceeded"), ServiceText(<<"image description">>)}

\* ------------------------------------------------------------------------
\* State
\* ------------------------------------------------------------------------
VARIABLES
    env,                \* which optional imports succeeded (lines 22-41)
    api_key,            \* the key widget of the sidebar holds a key
    files,              \* the three file uploaders
    extra_images,       \* the names of the extra images uploaded, in upload order
    api_key_set,        \* st.session_state.api_key_set
    analysis_complete,  \* st.session_state.analysis_complete
    results,            \* st.session_state.results
    extracted_texts,    \* st.session_state.extracted_texts
    crashed,            \* the exception that ended the last script run, or NoExc
    top_message,        \* what the last script run showed above the start button
    pc,                 \* where the run started by the button stands
    all_outputs,        \* local of main
    laatste_conclusie,  \* local of main: the text Agent 0 is given
    logs,               \* the messages update_progress showed
    notice,             \* the st.warning / st.error / status_text the run ended with
    progress_bar,       \* progress_bar.progress(n)
    calls,              \* history: the model calls made, in order
    served,             \* history: what the service did for each stage that called it
    parsed,             \* history: the stages that handed a text to parse_json_response
    responses,          \* history: the canned answer each stage that called was given
    fn_pc, fn_in, fn_out \* the harness that applies one function to one input

uivars == <<env, api_key, files, extra_images, api_key_set, analysis_complete, results,
            extracted_texts, crashed, top_message>>

runvars == <<pc, all_outputs, laatste_conclusie, logs, notice, progress_bar, calls,
             served, parsed, responses>>

fnvars == <<fn_pc, fn_in, fn_out>>

vars == <<uivars, runvars, fnvars>>

FileKeys == <<"historiek", "laatste", "mijn">>

KeySet == {FileKeys[i] : i \in 1..Len(FileKeys)}

NoFile == Doc("none", TRUE, TRUE, <<>>)

TxtDoc == Doc(TYPE_TXT, TRUE, TRUE, <<>>)

DocxDoc == Doc(TYPE_DOCX, TRUE, TRUE, <<>>)

\* the documents a user uploads in Spec
UploadChoices == {TxtDoc, DocxDoc}

Envs == [PyPDF2 : BOOLEAN, PIL : BOOLEAN]

Stages == <<"agent0", "agent1", "agent2", "agent3", "agent5", "agent4">>

StageSet == {Stages[i] : i \in 1..Len(Stages)}

ImageName(i) == "img" \o ToString(i) \o ".png"

\* the members of json.dumps(results): one per stage held, in insertion order,
\* which is the order of the stages
RECURSIVE ExportMembers(_, _)
ExportMembers(res, i) ==
    IF i > Len(Stages) THEN <<>>
    ELSE (IF Stages[i] \in DOMAIN res
          THEN <<KV(Stages[i], res[Stages[i]])>> ELSE <<>>)
         \o ExportMembers(res, i + 1)

\* a variant of the export that leaves out the entries that are error records
RECURSIVE SuccessMembers(_, _)
SuccessMembers(res, i) ==
    IF i > Len(Stages) THEN <<>>
    ELSE (IF Stages[i] \in DOMAIN res /\ "error" \notin DOMAIN res[Stages[i]]
          THEN <<KV(Stages[i], res[Stages[i]])>> ELSE <<>>)
         \o SuccessMembers(res, i + 1)

json_export_successes(res) == json_dumps(SuccessMembers(res, 1))

\* lines 1101-1103: the JSON export of st.session_state.results
json_export(res) == json_dumps(ExportMembers(res, 1))

\* ------------------------------------------------------------------------
\* One execution of the script up to the start button (lines 727-881)
\* ------------------------------------------------------------------------
\* lines 820-851: the uploaded files are extracted in the order of the three
\* columns; an exception of an extractor is caught nowhere and ends the script
RECURSIVE ExtractAll(_, _, _, _, _)
ExtractAll(keys, fs, extracted, vision, e) ==
    IF keys = <<>> THEN [exc |-> NoExc, extracted |-> extracted]
    ELSE IF fs[Head(keys)] = NoFile THEN ExtractAll(Tail(keys), fs, extracted, vision, e)
    ELSE LET r == extract_and_analyze_content(fs[Head(keys)], vision, e)
         IN  IF r.exc # NoExc THEN [exc |-> r.exc, extracted |-> extracted]
             ELSE ExtractAll(Tail(keys), fs,
                     [k \in (DOMAIN extracted) \cup {Head(keys)} |->
                         IF k = Head(keys) THEN r.ret.text ELSE extracted[k]],
                     vision, e)

\* lines 734-748 and 799-801, then the extraction
ScriptTop(key, fs, vision) ==
    LET set == api_key_set \/ key
    IN  IF set
        THEN [api_key_set |-> TRUE] @@ ExtractAll(FileKeys, fs, extracted_texts, vision, env)
        ELSE [api_key_set |-> FALSE, exc |-> NoExc, extracted |-> extracted_texts]

\* a variant that is content with one uploaded file
all_files_uploaded_any(fs) == \E k \in KeySet : fs[k] # NoFile

\* line 877
all_files_uploaded(fs) == \A k \in KeySet : fs[k] # NoFile

API_KEY_WARNING == "Configureer eerst je API key in de sidebar"

ALL_UPLOADED == "Alle documenten geupload en verwerkt"

\* a script run in which the start button is not pressed: line 800 warns and
\* returns without a key, line 880 reports the complete upload
Rerun(key, fs, vision) ==
    LET top == ScriptTop(key, fs, vision)
    IN  /\ api_key_set' = top.api_key_set
        /\ extracted_texts' = top.extracted
        /\ crashed' = top.exc
        /\ top_message' = IF ~top.api_key_set THEN API_KEY_WARNING
                          ELSE IF top.exc = NoExc /\ all_files_uploaded(fs) THEN ALL_UPLOADED
                          ELSE ""

\* the uploaders are drawn only past line 801
UploadersShown == pc = "idle" /\ api_key_set

\* the button of line 883 is drawn when the last script run got that far
ButtonShown == UploadersShown /\ crashed = NoExc /\ all_files_uploaded(files)

EnterApiKey ==
    /\ pc = "idle" /\ ~api_key
    /\ api_key' = TRUE
    /\ \E vision \in VisionServices : Rerun(TRUE, files, vision)
    /\ UNCHANGED <<env, files, extra_images, analysis_complete, results, runvars, fnvars>>

ClearApiKey ==
    /\ pc = "idle" /\ api_key
    /\ api_key' = FALSE
    /\ \E vision \in VisionServices : Rerun(FALSE, files, vision)
    /\ UNCHANGED <<env, files, extra_images, analysis_complete, results, runvars, fnvars>>

UploadFile ==
    /\ UploadersShown
    /\ \E k \in KeySet, doc \in UploadChoices \cup {NoFile} :
          /\ files[k] # doc
          /\ files' = [files EXCEPT ![k] = doc]
          /\ \E vision \in VisionServices : Rerun(api_key, files', vision)
    /\ UNCHANGED <<env, api_key, extra_images, analysis_complete, results, runvars, fnvars>>

UploadExtraImages ==
    /\ UploadersShown /\ crashed = NoExc
    /\ \E n \in 0..MaxImages :
          /\ n # Len(extra_images)
          /\ extra_images' = [i \in 1..n |-> ImageName(i)]
    /\ \E vision \in VisionServices : Rerun(api_key, files, vision)
    /\ UNCHANGED <<env, api_key, files, analysis_complete, results, runvars, fnvars>>

\* ------------------------------------------------------------------------
\* The run the start button starts (lines 883-980)
\* ------------------------------------------------------------------------
\* the tag line 914 writes before the analysis of an image
ImageTag(name) == "[AFBEELDING: " \o name \o "]"

\* a variant that merges the first image only
extra_content_first(images, visions, i) ==
    IF i > 1 THEN <<>>
    ELSE <<ImageTag(images[1])>> \o process_image_with_gemini(visions[1], env).ret

\* lines 910-914: the analyses of the extra images, each under its file name
RECURSIVE extra_content(_, _, _)
extra_content(images, visions, i) ==
    IF i > Len(images) THEN <<>>
    ELSE <<ImageTag(images[i])>>
         \o process_image_with_gemini(visions[i], env).ret
         \o extra_content(images, visions, i + 1)

\* lines 903-915
merged_conclusie(extracted, images, visions) ==
    Get(extracted, "laatste", <<>>)
    \o (IF images # <<>>
        THEN <<"[EXTRA VISUELE BEWIJZEN]">> \o extra_content(images, visions, 1)
        ELSE <<>>)

StartAnalysis ==
    /\ ButtonShown
    /\ \E vision \in VisionServices, visions \in [1..Len(extra_images) -> VisionServices] :
          LET top == ScriptTop(api_key, files, vision)
          IN  /\ Rerun(api_key, files, vision)
              /\ IF top.exc = NoExc /\ all_files_uploaded(files)
                 THEN /\ pc' = "agent0"
                      /\ logs' = <<Log("main", "content", 0)>>
                                  \o (IF extra_images # <<>>
                                      THEN <<Log("main", "images", Len(extra_images))>>
                                      ELSE <<>>)
                      /\ laatste_conclusie' =
                            merged_conclusie(top.extracted, extra_images, visions)
                      /\ calls' = [i \in 1..(IF env.PIL THEN Len(extra_images) ELSE 0)
                                      |-> "vision"]
                      /\ progress_bar' = 10
                      /\ all_outputs' = EmptyDict
                      /\ notice' = ""
                      /\ served' = EmptyDict
                      /\ parsed' = {}
                      /\ responses' = EmptyDict
                 ELSE UNCHANGED runvars
    /\ UNCHANGED <<env, api_key, files, extra_images, analysis_complete, results, fnvars>>

\* a variant of the assignment that starts a fresh dict
Put_only(d, k, v) == [x \in {k} |-> v]

Put(d, k, v) == [x \in (DOMAIN d) \cup {k} |-> IF x = k THEN v ELSE d[x]]

\* lines 978-980: the handler of main
Handler(out) ==
    /\ logs' = logs \o out.logs \o <<Log("main", "ERROR: " \o out.exc, 0)>>
    /\ notice' = "error: " \o out.exc
    /\ pc' = "done"

\* the history of one agent call
Record(stage, service, out) ==
    /\ calls' = IF out.called THEN Append(calls, stage) ELSE calls
    /\ served' = IF out.called THEN Put(served, stage, service.kind) ELSE served
    /\ parsed' = IF out.called THEN parsed \cup {stage} ELSE parsed
    /\ responses' = IF out.called THEN Put(responses, stage, service) ELSE responses

\* a variant that stores the entry only when the image library was imported
Continue_env(stage, out, next, progress) ==
    IF out.exc # NoExc
    THEN Handler(out) /\ UNCHANGED <<all_outputs, progress_bar>>
    ELSE /\ all_outputs' = Put(all_outputs, stage, IF env.PIL THEN out.ret ELSE EmptyDict)
         /\ progress_bar' = progress
         /\ logs' = logs \o out.logs
         /\ pc' = next
         /\ UNCHANGED notice

\* an agent of lines 933-969 returned or raised
Continue(stage, out, next, progress) ==
    IF out.exc # NoExc
    THEN Handler(out) /\ UNCHANGED <<all_outputs, progress_bar>>
    ELSE /\ all_outputs' = Put(all_outputs, stage, out.ret)
         /\ progress_bar' = progress
         /\ logs' = logs \o out.logs
         /\ pc' = next
         /\ UNCHANGED notice

NO_NEW_ELEMENTS == "Geen nieuwe elementen gedetecteerd. Analyse gestopt."

\* a variant of line 929 that stops only when the key is missing
no_new_elements_absent(agent0_output) == "nieuwe_elementen" \notin DOMAIN agent0_output

\* line 929: not agent0_output.get('nieuwe_elementen')
no_new_elements(agent0_output) == Get(agent0_output, "nieuwe_elementen", <<>>) = <<>>

\* lines 922-931: what main does with Agent 0 for one behaviour of the service.
\* exc is the exception that reaches the handler of main, stored tells whether
\* line 926 was reached, next is where the run goes on.
main_after_agent0(out) ==
    LET base == [exc |-> out.exc, stored |-> FALSE, ret |-> out.ret, logs |-> out.logs,
                 notice |-> "", next |-> "done", progress_bar |-> 10,
                 called |-> out.called]
    IN  IF out.exc # NoExc THEN base
        ELSE IF ~IsDict(out.ret)
        THEN [base EXCEPT !.exc = "AttributeError", !.stored = TRUE, !.progress_bar = 25]
        ELSE IF no_new_elements(out.ret)
        THEN [base EXCEPT !.stored = TRUE, !.progress_bar = 25, !.notice = NO_NEW_ELEMENTS]
        ELSE [base EXCEPT !.stored = TRUE, !.progress_bar = 25, !.next = "agent1"]

main_agent0(service) == main_after_agent0(Agent0_analyze(service))

\* the state after lines 922-931, r being what main made of Agent 0
Agent0Return(service, r) ==
    /\ Record("agent0", service, r)
    /\ all_outputs' = IF r.stored THEN Put(all_outputs, "agent0", r.ret) ELSE all_outputs
    /\ progress_bar' = r.progress_bar
    /\ IF r.exc # NoExc
       THEN Handler(r)
       ELSE /\ logs' = logs \o r.logs
            /\ notice' = r.notice
            /\ pc' = r.next

Agent0Step ==
    /\ pc = "agent0"
    /\ \E n \in 1..Len(Services("agent0")) :
          Agent0Return(Services("agent0")[n], main_agent0(Services("agent0")[n]))
    /\ UNCHANGED <<uivars, laatste_conclusie, fnvars>>

Agent1Step ==
    /\ pc = "agent1"
    /\ \E n \in 1..Len(Services("agent1")) :
          LET service == Services("agent1")[n]
              out == Agent1_analyze(all_outputs["agent0"], service)
          IN  Record("agent1", service, out) /\ Continue("agent1", out, "agent2", 40)
    /\ UNCHANGED <<uivars, laatste_conclusie, fnvars>>

Agent2Step ==
    /\ pc = "agent2"
    /\ \E n \in 1..Len(Services("agent2")) :
          LET service == Services("agent2")[n]
              out == Agent2_analyze(all_outputs["agent0"], service)
          IN  Record("agent2", service, out) /\ Continue("agent2", out, "agent3", 55)
    /\ UNCHANGED <<uivars, laatste_conclusie, fnvars>>

Agent3Step ==
    /\ pc = "agent3"
    /\ \E n \in 1..Len(Services("agent3")) :
          LET service == Services("agent3")[n]
              out == Agent3_analyze(all_outputs["agent0"], all_outputs["agent2"], service)
          IN  Record("agent3", service, out) /\ Continue("agent3", out, "agent5", 70)
    /\ UNCHANGED <<uivars, laatste_conclusie, fnvars>>

Agent5Step ==
    /\ pc = "agent5"
    /\ \E n \in 1..Len(Services("agent5")) :
          LET service == Services("agent5")[n]
              out == Agent5_analyze(all_outputs["agent0"], service)
          IN  Record("agent5", service, out) /\ Continue("agent5", out, "agent4", 85)
    /\ UNCHANGED <<uivars, laatste_conclusie, fnvars>>

\* a variant that stores the results before the entry of Agent 4 is added
Agent4Step_early ==
    /\ pc = "agent4"
    /\ \E n \in 1..Len(Services("agent4")) :
          LET service == Services("agent4")[n]
              out == Agent4_synthesize(all_outputs, service)
          IN  /\ Record("agent4", service, out)
              /\ IF out.exc # NoExc
                 THEN /\ Handler(out)
                      /\ UNCHANGED <<all_outputs, progress_bar, results, analysis_complete>>
                 ELSE /\ all_outputs' = Put(all_outputs, "agent4", out.ret)
                      /\ progress_bar' = 100
                      /\ results' = all_outputs
                      /\ analysis_complete' = TRUE
                      /\ notice' = "Analyse compleet!"
                      /\ logs' = logs \o out.logs \o <<Log("main", "all done", 0)>>
                      /\ pc' = "done"
    /\ UNCHANGED <<env, api_key, files, extra_images, api_key_set, extracted_texts, crashed,
                   top_message, laatste_conclusie, fnvars>>

\* lines 964-976
Agent4Step ==
    /\ pc = "agent4"
    /\ \E n \in 1..Len(Services("agent4")) :
          LET service == Services("agent4")[n]
              out == Agent4_synthesize(all_outputs, service)
          IN  /\ Record("agent4", service, out)
              /\ IF out.exc # NoExc
                 THEN /\ Handler(out)
                      /\ UNCHANGED <<all_outputs, progress_bar, results, analysis_complete>>
                 ELSE /\ all_outputs' = Put(all_outputs, "agent4", out.ret)
                      /\ progress_bar' = 100
                      /\ results' = all_outputs'
                      /\ analysis_complete' = TRUE
                      /\ notice' = "Analyse compleet!"
                      /\ logs' = logs \o out.logs \o <<Log("main", "all done", 0)>>
                      /\ pc' = "done"
    /\ UNCHANGED <<env, api_key, files, extra_images, api_key_set, extracted_texts, crashed,
                   top_message, laatste_conclusie, fnvars>>

\* ------------------------------------------------------------------------
\* Specifications
\* ------------------------------------------------------------------------
InitSession ==
    /\ api_key = FALSE
    /\ files = [k \in KeySet |-> NoFile]
    /\ extra_images = <<>>
    /\ api_key_set = FALSE
    /\ analysis_complete = FALSE
    /\ results = None
    /\ extracted_texts = EmptyDict
    /\ crashed = NoExc
    /\ top_message = ""
    /\ pc = "idle"
    /\ all_outputs = EmptyDict
    /\ laatste_conclusie = <<>>
    /\ logs = <<>>
    /\ notice = ""
    /\ progress_bar = 0
    /\ calls = <<>>
    /\ served = EmptyDict
    /\ responses = EmptyDict
    /\ parsed = {}

Init ==
    /\ env \in Envs
    /\ InitSession
    /\ fn_pc = "off" /\ fn_in = <<>> /\ fn_out = <<>>

Next ==
    \/ EnterApiKey
    \/ ClearApiKey
    \/ UploadFile
    \/ UploadExtraImages
    \/ StartAnalysis
    \/ Agent0Step
    \/ Agent1Step
    \/ Agent2Step
    \/ Agent3Step
    \/ Agent5Step
    \/ Agent4Step

Spec == Init /\ [][Next]_vars

FullEnv == [PyPDF2 |-> TRUE, PIL |-> TRUE]

\* ------------------------------------------------------------------------
\* Several runs in one session
\* ------------------------------------------------------------------------
\* The script execution the button started is over (the return of line 931,
\* or the end of main after the handler or after line 976): the page waits
\* for the next interaction.  st.session_state keeps analysis_complete and
\* results; the locals of the run are kept here as its history until the
\* next run starts.
ScriptEnds ==
    /\ pc = "done"
    /\ pc' = "idle"
    /\ UNCHANGED <<uivars, all_outputs, laatste_conclusie, logs, notice, progress_bar,
                   calls, served, parsed, responses, fnvars>>

\* The sessions followed over several runs: text uploads, at most one extra
\* image, and a model that answers every stage after Agent 0 with a text
\* that parses to a dict without an error key.  Agent 0 is answered in all
\* the ways of the catalogue that store a dict or raise.
RerunLimit ==
    /\ \A k \in KeySet : files[k].type # TYPE_DOCX
    /\ Len(extra_images) <= 1
    /\ \A st \in DOMAIN served \ {"agent0"} : served[st] = "text"
    /\ \A st \in DOMAIN all_outputs :
          /\ IsDict(all_outputs[st])
          /\ st # "agent0" => "error" \notin DOMAIN all_outputs[st]

NextRerun == (Next /\ RerunLimit') \/ ScriptEnds

InitRerun == env = FullEnv /\ InitSession /\ fn_pc = "off" /\ fn_in = <<>> /\ fn_out = <<>>

SpecRerun == InitRerun /\ [][NextRerun]_vars

\* ------------------------------------------------------------------------
\* Harnesses: one function applied to one input drawn from a bounded set
\* ------------------------------------------------------------------------
Alphabet ==
    {FENCE_JSON, FENCE, LB, RB, NUM, ARR, PROSE, WS,
     KV("a", "x"), KV("a", "y"), KV("b", "x")}

Texts == UNION {[1..n -> Alphabet] : n \in 0..MaxLen}

InitHarness(step, inputs) ==
    /\ env = FullEnv
    /\ InitSession
    /\ fn_pc = step
    /\ fn_in \in inputs
    /\ fn_out = <<>>

\* parse_json_response on every text of at most MaxLen lexemes
ParseStep ==
    /\ fn_pc = "parse"
    /\ fn_out' = parse_json_response(fn_in)
    /\ fn_pc' = "parsed"
    /\ UNCHANGED <<fn_in, uivars, runvars>>

SpecParse == InitHarness("parse", Texts) /\ [][ParseStep]_vars

\* call_gemini on every behaviour of the service
ServiceBehaviours ==
    {ServiceNoParts}
    \cup {ServiceRaise(d) : d \in ErrorDetails}
    \cup {ServiceText(t) : t \in Texts}

InvokeStep ==
    /\ fn_pc = "invoke"
    /\ fn_out' = call_gemini(fn_in)
    /\ fn_pc' = "invoked"
    /\ UNCHANGED <<fn_in, uivars, runvars>>

SpecInvoke == InitHarness("invoke", ServiceBehaviours) /\ [][InvokeStep]_vars

\* extract_and_analyze_content on every document
Documents ==
    {Doc(TYPE_TXT, u, TRUE, <<>>) : u \in BOOLEAN}
    \cup {Doc(TYPE_PDF, TRUE, FALSE, <<>>)}
    \cup {Doc(TYPE_PDF, TRUE, TRUE, ps) : ps \in UNION {[1..n -> PageKinds] : n \in 0..MaxPages}}
    \cup {Doc(TYPE_DOCX, TRUE, o, <<>>) : o \in BOOLEAN}
    \cup {Doc(TYPE_PNG, TRUE, TRUE, <<>>), Doc(TYPE_OTHER, TRUE, TRUE, <<>>)}

Uploads == [doc : Documents, vision : VisionServices, env : Envs, file_key : KeySet]

\* lines 228-272
ExtractStep ==
    /\ fn_pc = "extract"
    /\ LET out == extract_and_analyze_content(fn_in.doc, fn_in.vision, fn_in.env)
       IN  /\ fn_out' = out
           /\ crashed' = out.exc
           /\ IF out.exc = NoExc
              THEN /\ extracted_texts' = Put(extracted_texts, fn_in.file_key, out.ret.text)
                   /\ notice' = IF out.ret.images # <<>> THEN "afbeelding(en) gedetecteerd"
                                 ELSE notice
              ELSE UNCHANGED <<extracted_texts, notice>>
    /\ fn_pc' = "extracted"
    /\ UNCHANGED <<fn_in, env, api_key, files, extra_images, api_key_set, analysis_complete,
                   results, top_message, pc, all_outputs, laatste_conclusie, logs, progress_bar, calls,
                   served, parsed, responses>>

SpecExtract == InitHarness("extract", Uploads) /\ [][ExtractStep]_vars

\* ------------------------------------------------------------------------
\* Properties
\* ------------------------------------------------------------------------
COMPLETE == "Analyse compleet!"

Finished == pc = "done"

\* the run ended in the handler of lines 978-980
Aborted == Finished /\ notice \notin {NO_NEW_ELEMENTS, COMPLETE}

SameDict(a, b) == DOMAIN a = DOMAIN b /\ \A k \in DOMAIN a : a[k] = b[k]

Stored == "py_none" \notin DOMAIN results

ZeroFindings ==
    /\ "agent0" \in DOMAIN all_outputs
    /\ IsDict(all_outputs["agent0"])
    /\ Get(all_outputs["agent0"], "nieuwe_elementen", <<>>) = <<>>

\* C2: when the output of Agent 0 holds no findings (the list is empty or
\* absent), no later stage is invoked and no model call follows that of Agent 0.
C2_ShortCircuit ==
    ZeroFindings =>
        /\ pc = "done"
        /\ DOMAIN all_outputs = {"agent0"}
        /\ DOMAIN served = {"agent0"}
        /\ calls # <<>> /\ calls[Len(calls)] = "agent0"
        /\ \A i \in 1..Len(calls) : calls[i] \in {"vision", "agent0"}
        /\ \A i \in 1..Len(logs) : logs[i].stage \in {"main", "agent0"}

\* Agent 0 answered with an empty list and its summary
C2_Witness ==
    /\ ZeroFindings /\ Finished
    /\ "nieuwe_elementen" \in DOMAIN all_outputs["agent0"]
    /\ "samenvatting" \in DOMAIN all_outputs["agent0"]

\* the service failed Agent 0: the call raised, the answer was blocked, or the
\* text cannot be parsed
TrueFailure(service) ==
    \/ service.kind \in {"raise", "no_parts"}
    \/ json_loads(json_str_of(service.text)).exc # NoExc

\* what the user sees of the Agent 0 part of a run that ends there
EndOf(r) ==
    [notice       |-> IF r.exc # NoExc THEN "error: " \o r.exc ELSE r.notice,
     progress_bar |-> r.progress_bar,
     logs         |-> r.logs \o (IF r.exc # NoExc
                                 THEN <<Log("main", "ERROR: " \o r.exc, 0)>> ELSE <<>>)]

StartLen == IF extra_images # <<>> THEN 2 ELSE 1

\* the run stopped at line 931 on an answer that was parsed
DesignedShortCircuit ==
    /\ Finished /\ notice = NO_NEW_ELEMENTS
    /\ served["agent0"] = "text"
    /\ "raw_response" \notin DOMAIN all_outputs["agent0"]

\* C3: a designed short-circuit (Agent 0 answered, the answer was parsed and
\* holds no findings) never leaves the stored state and the user-visible
\* outcome that a true failure of Agent 0 leaves.  Both leave
\* st.session_state untouched, so what is left to tell them apart is the
\* notice, the progress bar and the log.
C3_Distinguishable ==
    DesignedShortCircuit =>
        \A n \in 1..Len(Services("agent0")) :
            TrueFailure(Services("agent0")[n]) =>
                EndOf(main_agent0(Services("agent0")[n]))
                    # [notice |-> notice, progress_bar |-> progress_bar,
                       logs |-> SubSeq(logs, StartLen + 1, Len(logs))]

\* C4: no exception of a stage ends the run in the handler of main.
C4_NoAbort == ~Aborted

C6_NeverRaises ==
    fn_pc = "invoked" =>
        /\ fn_out.exc = NoExc
        /\ IF fn_in.kind = "text"
           THEN fn_out.ret = fn_in.text
           ELSE LET d == json_loads(fn_out.ret)
                IN  /\ d.exc = NoExc
                    /\ IsDict(d.ret)
                    /\ {"error", "fallback"} \subseteq DOMAIN d.ret
                    /\ d.ret["fallback"] = TRUE
                    /\ d.ret["error"] = IF fn_in.kind = "raise" THEN fn_in.detail
                                        ELSE "Gemini response geblokkeerd"

\* the service raised and call_gemini returned
C6_Witness == fn_pc = "invoked" /\ fn_in.kind = "raise" /\ fn_out.exc = NoExc

IsParseFailureOf(r, input) ==
    /\ DOMAIN r = {"error", "raw_response"}
    /\ r["error"] = "JSON parsing failed"
    /\ r["raw_response"] = input

\* C7: parse_json_response never raises and returns the data decoded from a
\* part of the response, or a failure record whose raw text is the response
\* unmodified.
C7_ParseTotal ==
    fn_pc = "parsed" =>
        /\ fn_out.exc = NoExc
        /\ \/ IsParseFailureOf(fn_out.ret, fn_in)
           \/ \E a \in 1..(Len(fn_in) + 1), b \in 0..Len(fn_in) :
                 LET l == json_loads(SubSeq(fn_in, a, b))
                 IN  l.exc = NoExc /\ SameDict(fn_out.ret, l.ret)

\* a fenced response that cannot be parsed came back whole
C7_Witness ==
    /\ fn_pc = "parsed"
    /\ Len(fn_in) >= 2 /\ fn_in[1].t = "fence_json" /\ fn_in[2].t = "p"
    /\ IsParseFailureOf(fn_out.ret, fn_in)

BlockedRecord ==
    [error    |-> "Gemini response geblokkeerd",
     reason   |-> "Mogelijk safety filter of te lange input",
     fallback |-> TRUE]

\* what the report shows for a stage that has nothing to show
SectionDefault(stage, r) ==
    CASE stage = "agent0" -> FALSE
      [] stage = "agent1" -> r.procedurele_risicos = 0
      [] stage = "agent2" -> r.feitelijke_issues = 0
      [] stage = "agent3" -> r.juridische_aanvallen = 0
      [] stage = "agent5" -> /\ r.hoofdargumentatie_intact = "Nee"
                             /\ r.visueel_bewijs_strategie = NO_STRATEGY
      [] stage = "agent4" -> r.prioritaire_acties = <<"Check agent logs voor details">>

MarksBlocked(entry) ==
    /\ IsDict(entry)
    /\ "error" \in DOMAIN entry
    /\ entry["error"] = "Gemini response geblokkeerd"

\* C8 as claimed: when the answer to a stage is blocked, parse_json_response is
\* not invoked for that stage, the entry of the stage is a failure that names
\* the block, and the report shows the fixed fallback of the section.
C8_BlockedNotParsed ==
    \A st \in DOMAIN served :
        served[st] = "no_parts" =>
            /\ st \notin parsed
            /\ st \in DOMAIN all_outputs /\ MarksBlocked(all_outputs[st])
            /\ Stored => SectionDefault(st, rapport(results))

\* C8 as amended: when the answer to a stage is blocked, call_gemini returns
\* its JSON sentinel and parse_json_response is invoked on it and decodes it;
\* the entry of the stage is the decoded sentinel (error, reason, fallback),
\* except for Agent 4, whose entry is the fixed fallback memorandum; a blocked
\* Agent 0 ends the run at the short-circuit, without a report; in the report
\* of a completed run the section of a blocked Agent 1, 2 or 3 counts 0, that
\* of Agent 5 shows Nee and the fixed strategy string, that of Agent 4 the
\* fixed action.
C8_BlockedSentinel ==
    \A st \in DOMAIN served :
        served[st] = "no_parts" =>
            /\ st \in parsed
            /\ st \in DOMAIN all_outputs
            /\ SameDict(all_outputs[st],
                        IF st = "agent4" THEN Agent4_fallback ELSE BlockedRecord)
            /\ Stored => SectionDefault(st, rapport(results))

\* a completed run in which the answers to Agent 5 and Agent 4 were blocked
C8_Witness ==
    /\ Stored /\ Finished
    /\ served["agent5"] = "no_parts" /\ served["agent4"] = "no_parts"

\* C9: content extraction never raises, whatever the media type.
C9_NeverRaises == fn_pc = "extracted" => fn_out.exc = NoExc

\* the parse of a PDF or DOCX fails: the reader rejects the file, or a page
\* raises after the pages before it were processed
ParseFails(doc, e) ==
    \/ /\ doc.type = TYPE_PDF /\ e.PyPDF2
       /\ \/ ~doc.opens
          \/ \E i \in 1..Len(doc.pages) : doc.pages[i] \in {"broken", "image_broken"}
    \/ doc.type = TYPE_DOCX /\ ~doc.opens

\* C10: whenever the parse of a PDF or DOCX fails, the extractor returns the
\* short diagnostic as text together with an empty list of images.
C10_DiagnosticNoImages ==
    fn_pc = "extracted" /\ ParseFails(fn_in.doc, fn_in.env) =>
        /\ fn_out.exc = NoExc
        /\ fn_out.ret.text \in {<<PDF_DIAGNOSTIC>>, <<DOCX_DIAGNOSTIC>>}
        /\ fn_out.ret.images = <<>>

StageIndex(st) == CHOOSE i \in 1..Len(Stages) : Stages[i] = st

\* the stages before position n of the fixed order
StagesBefore(n) == {Stages[i] : i \in 1..(n - 1)}

\* the model calls of the pipeline, in the order they were made
RECURSIVE PipelineCalls(_)
PipelineCalls(cs) ==
    IF cs = <<>> THEN <<>>
    ELSE IF Head(cs) = "vision" THEN PipelineCalls(Tail(cs))
    ELSE <<Head(cs)>> \o PipelineCalls(Tail(cs))

\* in every state of a run the entries are those of a prefix of the fixed
\* order, the stage about to run sees the entries of all stages before it and
\* of no other, and the model calls were made in the fixed order, one per stage
C11_Ordered ==
    /\ \E n \in 1..(Len(Stages) + 1) : DOMAIN all_outputs = StagesBefore(n)
    /\ pc \in StageSet => DOMAIN all_outputs = StagesBefore(StageIndex(pc))
    /\ LET pcs == PipelineCalls(calls)
       IN  \A i, j \in 1..Len(pcs) : i < j => StageIndex(pcs[i]) < StageIndex(pcs[j])

\* a step of a run keeps every entry as it is, adds at most the entry of the
\* stage that ran in that step, and moves on to a later stage or to the end
C11_Step ==
    pc # "idle" =>
        /\ \A st \in DOMAIN all_outputs :
              st \in DOMAIN all_outputs' /\ all_outputs'[st] = all_outputs[st]
        /\ DOMAIN all_outputs' \subseteq DOMAIN all_outputs \cup {pc}
        /\ pc' \in StageSet => pc \in StageSet /\ StageIndex(pc') = StageIndex(pc) + 1

\* C11: within one run the stages execute one after the other in the order
\* Agent 0, 1, 2, 3, 5, 4; an entry is inserted when its stage completes, at
\* most once, and is never overwritten, changed or removed afterwards, so the
\* insertion order is the execution order and a stage reads only entries of
\* stages that completed before it.
C11_SequentialMonotone == []C11_Ordered /\ [][C11_Step]_vars

\* Agent 4 is about to run on the five entries of the stages before it
C11_Witness ==
    /\ pc = "agent4"
    /\ DOMAIN all_outputs = StageSet \ {"agent4"}
    /\ PipelineCalls(calls) # <<>>

\* an error record: what a stage returns when its call or its parse failed
IsFailure(entry) == IsDict(entry) /\ "error" \in DOMAIN entry

Failed(st) == st \in DOMAIN all_outputs /\ IsFailure(all_outputs[st])

AllDicts == \A st \in DOMAIN all_outputs : IsDict(all_outputs[st])

\* the count the summary of Agent 4 holds for a stage
SummaryCount(st) ==
    CASE st = "agent1" -> Agent4_summary(all_outputs).procedurele_risicos
      [] st = "agent2" -> Agent4_summary(all_outputs).feitelijke_issues
      [] st = "agent3" -> Agent4_summary(all_outputs).juridische_aanvallen

\* no behaviour of the service makes the stage that is about to run raise
NextStageReturns ==
    CASE pc = "agent3" ->
            \A n \in 1..Len(Services("agent3")) :
                Agent3_analyze(all_outputs["agent0"], all_outputs["agent2"],
                               Services("agent3")[n]).exc = NoExc
      [] pc = "agent5" ->
            \A n \in 1..Len(Services("agent5")) :
                Agent5_analyze(all_outputs["agent0"], Services("agent5")[n]).exc = NoExc
      [] pc = "agent4" ->
            \A n \in 1..Len(Services("agent4")) :
                Agent4_synthesize(all_outputs, Services("agent4")[n]).exc = NoExc
      [] OTHER -> TRUE

\* what Agent 5 is handed of the output of stage st
Agent5Reads(st) ==
    Agent5_prompt(all_outputs["agent1"], all_outputs["agent2"], all_outputs["agent3"],
                  all_outputs["agent0"])[st]

\* the parts of C12 that hold as claimed: a failed Agent 2 reaches Agent 3 as
\* an empty list, a failed stage counts 0 in the summary of Agent 4, and with
\* error records upstream no behaviour of the service makes a stage raise
C12_Defaults ==
    /\ pc = "agent3" /\ Failed("agent2") =>
          Agent3_feitelijke_ondersteuning(all_outputs["agent2"]) = <<>>
    /\ pc = "agent4" /\ AllDicts =>
          /\ \A st \in {"agent1", "agent2", "agent3"} : Failed(st) => SummaryCount(st) = 0
          /\ Failed("agent5") =>
                SameDict(Agent4_summary(all_outputs).hoofdrisico, EmptyDict)
    /\ AllDicts /\ (\E st \in StageSet : Failed(st)) => NextStageReturns

FailedCall(st) == st \in DOMAIN served /\ served[st] \in {"raise", "no_parts"}

\* the entry of a stage is the record of a failed parse
ParseFailed(st) ==
    /\ st \in DOMAIN all_outputs
    /\ IsDict(all_outputs[st])
    /\ "raw_response" \in DOMAIN all_outputs[st]

\* how often the model was called for a stage
CallsOf(st) == Cardinality({i \in 1..Len(calls) : calls[i] = st})

\* the stage after st was started
Continued(st) ==
    \/ pc \in StageSet /\ StageIndex(pc) > StageIndex(st)
    \/ \E i \in 1..Len(logs) :
          logs[i].stage \in StageSet /\ StageIndex(logs[i].stage) > StageIndex(st)

OncePerStage == \A st \in StageSet : CallsOf(st) <= 1

ExportRead == json_loads(json_export(results))

C15_NoEmptySection ==
    Stored =>
        /\ \A st \in StageSet \ {"agent0"} :
              FailedCall(st) \/ ParseFailed(st) => SectionDefault(st, rapport(results))
        /\ rapport(results).hoofdargumentatie_intact \in {"Ja", "Nee"}
        /\ rapport(results).visueel_bewijs_strategie # ""
        /\ rapport(results).prioritaire_acties # <<>>

Specialists == {"agent1", "agent2", "agent3"}

\* the findings a specialist selects from the output of Agent 0
Received(st) ==
    FilterElems(Get(all_outputs["agent0"], "nieuwe_elementen", <<>>), WordsOf(st))

\* Agent 0 returned a dict with exactly one finding
OneFinding ==
    /\ "agent0" \in DOMAIN all_outputs
    /\ IsDict(all_outputs["agent0"])
    /\ Len(Get(all_outputs["agent0"], "nieuwe_elementen", <<>>)) = 1

TheFinding == all_outputs["agent0"]["nieuwe_elementen"][1]

EmptyResult(st) ==
    CASE st = "agent1" -> Agent1_empty
      [] st = "agent2" -> Agent2_empty
      [] st = "agent3" -> Agent3_empty

IsStageLog(l) == l.stage # "main"

\* the notifications of the stages, without those main emits itself
StageLogs == SelectSeq(logs, IsStageLog)

\* C17 as claimed: every invoked stage notifies its start and then exactly
\* one completion (a count or a status) before the next stage starts, and the
\* notifications follow the stage order.
C17_StartThenCompletion ==
    /\ Len(StageLogs) % 2 = 0
    /\ \A i \in 1..Len(StageLogs) :
          IF i % 2 = 1
          THEN /\ StageLogs[i].kind = "start"
               /\ i + 1 <= Len(StageLogs)
               /\ StageLogs[i + 1].stage = StageLogs[i].stage
               /\ i > 2 => StageIndex(StageLogs[i - 2].stage) < StageIndex(StageLogs[i].stage)
          ELSE StageLogs[i].kind # "start"

\* what process_image_with_gemini can return for an image
ImageAnalyses == {"image description", "Fout bij beeldanalyse: ", PIL_UNAVAILABLE}

\* the positions of the merged text that hold the tag of an image
TagPositions(text, name) == {i \in 1..Len(text) : text[i] = ImageTag(name)}

\* the text is: the extracted latest conclusion, the header of the extra
\* images, and for every image in upload order its tag and its analysis
MergedInOrder(text, extracted, images) ==
    LET n    == Len(images)
        base == Len(text) - 2 * n - 1
    IN  /\ base >= 0
        /\ SubSeq(text, 1, base) = Get(extracted, "laatste", <<>>)
        /\ text[base + 1] = "[EXTRA VISUELE BEWIJZEN]"
        /\ \A i \in 1..n :
              /\ text[base + 2 * i] = ImageTag(images[i])
              /\ text[base + 2 * i + 1] \in ImageAnalyses
              /\ ~env.PIL => text[base + 2 * i + 1] = PIL_UNAVAILABLE
              /\ TagPositions(text, images[i]) = {base + 2 * i}

\* the run starts: the step of the start button that reaches Agent 0
RunStarts == pc = "idle" /\ pc' = "agent0"

C18_MergedAtStart ==
    RunStarts /\ extra_images # <<>> =>
        /\ MergedInOrder(laatste_conclusie', extracted_texts', extra_images)
        /\ \A i \in 1..Len(calls') : calls'[i] = "vision"
        /\ env.PIL => Len(calls') = Len(extra_images)

C18_VisionBeforeAgents ==
    \A i, j \in 1..Len(calls) : calls[i] = "vision" /\ calls[j] \in StageSet => i < j

\* C18: when extra images are uploaded, the step that starts the run analyses
\* every image and appends the analyses to the text of the latest conclusion
\* before Agent 0 is called; the merged text holds, after the extracted
\* conclusion, one entry per image in upload order, each the tag with the
\* file name followed by what the image analysis returned, and every tag
\* occurs exactly once.
C18_ImagesMerged == []C18_VisionBeforeAgents /\ [][C18_MergedAtStart]_vars

\* two images were uploaded, both were described, and Agent 0 is next
C18_Witness ==
    /\ pc = "agent0" /\ Len(extra_images) = 2 /\ env.PIL
    /\ Len(laatste_conclusie) >= 5
    /\ laatste_conclusie[Len(laatste_conclusie)] = "image description"
    /\ laatste_conclusie[Len(laatste_conclusie) - 1] = ImageTag(extra_images[2])
    /\ laatste_conclusie[Len(laatste_conclusie) - 2] = "image description"
    /\ laatste_conclusie[Len(laatste_conclusie) - 3] = ImageTag(extra_images[1])
    /\ calls = <<"vision", "vision">>

\* the answer a stage is given; a stage that made no call reads none
ResponseFor(resp, st) == IF st \in DOMAIN resp THEN resp[st] ELSE ServiceNoParts

\* lines 933-969 for one stage: what the agent makes of the entries so far
StageOutcome(st, outs, service) ==
    CASE st = "agent1" -> Agent1_analyze(outs["agent0"], service)
      [] st = "agent2" -> Agent2_analyze(outs["agent0"], service)
      [] st = "agent3" -> Agent3_analyze(outs["agent0"], outs["agent2"], service)
      [] st = "agent5" -> Agent5_analyze(outs["agent0"], service)
      [] st = "agent4" -> Agent4_synthesize(outs, service)

\* the pipeline state after Agent 0, r being what main made of its answer
RunAfterAgent0(r) ==
    [out     |-> IF r.stored THEN Put(EmptyDict, "agent0", r.ret) ELSE EmptyDict,
     stopped |-> r.exc # NoExc \/ r.next = "done"]

RunStore(prev, st, o) ==
    IF o.exc # NoExc THEN [out |-> prev.out, stopped |-> TRUE]
    ELSE [out |-> Put(prev.out, st, o.ret), stopped |-> FALSE]

RunNext(prev, st, service) ==
    IF prev.stopped THEN prev
    ELSE RunStore(prev, st, StageOutcome(st, prev.out, service))

\* the run as a function of the canned answers alone: the pipeline state
\* after the first k stages
RECURSIVE RunTo(_, _)
RunTo(resp, k) ==
    IF k = 0 THEN [out |-> EmptyDict, stopped |-> FALSE]
    ELSE IF k = 1 THEN RunAfterAgent0(main_agent0(ResponseFor(resp, "agent0")))
    ELSE RunNext(RunTo(resp, k - 1), Stages[k], ResponseFor(resp, Stages[k]))

\* the number of stages the run has been through
StagesDone ==
    IF pc = "idle" THEN 0
    ELSE IF pc = "done" THEN Len(Stages)
    ELSE StageIndex(pc) - 1

Least(S) == CHOOSE i \in S : \A j \in S : i <= j

Greatest(S) == CHOOSE i \in S : \A j \in S : i >= j

\* the positions of a text that hold a lexeme of one of the kinds
Positions(s, kinds) == {i \in 1..Len(s) : s[i].t \in kinds}

\* the positions after the first json fence that hold three back quotes
Closers(s) ==
    {i \in Positions(s, HasFence) : i > Least(Positions(s, IsFenceJson))}

\* from the first opening brace to the last closing brace
BraceText(s) ==
    IF Positions(s, IsLB) = {} \/ Positions(s, IsRB) = {} THEN <<>>
    ELSE SubSeq(s, Least(Positions(s, IsLB)), Greatest(Positions(s, IsRB)))

\* the interior of the fenced block; unclosed tells what is read when no
\* three back quotes follow the json fence: the rest of the text, or the
\* braces as if there were no fence
FencedText(s, unclosed) ==
    IF Closers(s) # {}
    THEN SubSeq(s, Least(Positions(s, IsFenceJson)) + 1, Least(Closers(s)) - 1)
    ELSE IF unclosed = "rest"
    THEN SubSeq(s, Least(Positions(s, IsFenceJson)) + 1, Len(s))
    ELSE BraceText(s)

ClaimedText(s, unclosed) ==
    IF Positions(s, IsFenceJson) # {} THEN FencedText(s, unclosed) ELSE BraceText(s)

\* what parsing the text gives for the response
ParseOf(text, response) ==
    IF json_loads(text).exc = NoExc THEN json_loads(text).ret ELSE ParseFailure(response)

\* C20 as claimed: when the response holds a json fence, the result is that
\* of parsing the text between that fence and the next three back quotes
\* (under either reading of a fence that is never closed), whatever braces
\* occur elsewhere; without a json fence it is that of parsing the text from
\* the first opening brace to the last closing brace.
C20_FenceFirst ==
    fn_pc = "parsed" =>
        \/ SameDict(fn_out.ret, ParseOf(ClaimedText(fn_in, "rest"), fn_in))
        \/ SameDict(fn_out.ret, ParseOf(ClaimedText(fn_in, "braces"), fn_in))

\* the same for the responses whose json fence is closed, and for those
\* without a json fence
C20_ClosedFence ==
    fn_pc = "parsed" /\ (Positions(fn_in, IsFenceJson) = {} \/ Closers(fn_in) # {}) =>
        SameDict(fn_out.ret, ParseOf(ClaimedText(fn_in, "rest"), fn_in))

\* the five categories of the output format of Agent 0 (line 369)
CategorySet == {Categories[i] : i \in 1..Len(Categories)}

\* the findings Agent 0 returned
Findings == Get(all_outputs["agent0"], "nieuwe_elementen", <<>>)

\* the specialists whose filter selects the finding
Takers(elem) ==
    {st \in Specialists : \E j \in 1..Len(Received(st)) : Received(st)[j] = elem}

\* C22: each of the five categories of the output format of Agent 0 holds a
\* filter word of exactly one specialist, so every finding of Agent 0 with an
\* enumerated category is selected by exactly one of Agent 1, 2 and 3, and
\* that specialist, once it has returned, has called the model for it.
C22_RoutedOnce ==
    /\ \A c \in CategorySet :
          Cardinality({st \in Specialists : WordsIn(c) \cap WordsOf(st) # {}}) = 1
    /\ "agent0" \in DOMAIN all_outputs /\ IsDict(all_outputs["agent0"]) =>
          \A i \in 1..Len(Findings) :
              Findings[i].categorie \in CategorySet =>
                  /\ Cardinality(Takers(Findings[i])) = 1
                  /\ \A st \in Takers(Findings[i]) :
                        st \in DOMAIN all_outputs => st \in DOMAIN served

\* three findings of three categories went to the three specialists
C22_Witness ==
    /\ pc = "agent5"
    /\ Len(Findings) = 3
    /\ Takers(Findings[1]) = {"agent1"}
    /\ Takers(Findings[2]) = {"agent2"}
    /\ Takers(Findings[3]) = {"agent3"}
    /\ Specialists \subseteq DOMAIN served

\* the stage was entered: it notified its start
Invoked(st) == \E i \in 1..Len(logs) : logs[i].stage = st /\ logs[i].kind = "start"

\* C23 as claimed: a specialist that was entered calls the model if and only
\* if its filter selected a finding, and one whose filter selected nothing
\* has its fixed empty result stored as its entry.
C23_CallIffSelected ==
    "agent0" \in DOMAIN all_outputs /\ IsDict(all_outputs["agent0"]) =>
        \A st \in Specialists :
            Invoked(st) =>
                /\ st \in DOMAIN served <=> Received(st) # <<>>
                /\ Received(st) = <<>> =>
                      /\ st \in DOMAIN all_outputs
                      /\ SameDict(all_outputs[st], EmptyResult(st))

\* the part of C23 that holds: no call and the fixed empty result when the
\* filter selected nothing, and Agent 1 and Agent 2 call whenever it did
C23_NoCallWhenEmpty ==
    "agent0" \in DOMAIN all_outputs /\ IsDict(all_outputs["agent0"]) =>
        \A st \in Specialists :
            Invoked(st) =>
                /\ st \in DOMAIN served => Received(st) # <<>>
                /\ st # "agent3" /\ Received(st) # <<>> => st \in DOMAIN served
                /\ Received(st) = <<>> =>
                      /\ st \in DOMAIN all_outputs
                      /\ SameDict(all_outputs[st], EmptyResult(st))

\* C24 as claimed: whatever the response, parse_json_response returns a
\* dict, also for a json fenced block that holds valid JSON that is no
\* object.
C24_AlwaysDict == fn_pc = "parsed" => IsDict(fn_out.ret)

\* the part of C24 that holds: without a json fence the result is a dict
C24_DictWithoutFence ==
    fn_pc = "parsed" /\ Positions(fn_in, IsFenceJson) = {} => IsDict(fn_out.ret)

\* the page of lines 983-1093 shows results
Displayed == analysis_complete /\ Stored /\ DOMAIN results # {}

\* no run is under way: the last started run, if any, is over
NoRunUnderWay == pc \in {"idle", "done"}

\* C21 as claimed: whenever analysis_complete is true, results holds the six
\* entries and they are those of the most recent started run; after a later
\* run that short-circuits or aborts no results of an earlier run are shown.
C21_ResultsCurrent ==
    analysis_complete =>
        /\ Stored /\ DOMAIN results = StageSet
        /\ NoRunUnderWay => SameDict(results, all_outputs)

\* the part of C21 that holds: results shown hold the six entries
C21_SixEntries == analysis_complete => Stored /\ DOMAIN results = StageSet

====
